---- MODULE Spec2Model ----
(***************************************************************************)
(* Model of melnor_bluetooth/device.py: the Device / Valve classes, the    *)
(* process-wide GLOBAL_BLUETOOTH_LOCK, the class-level _connection_lock,   *)
(* and the coroutines connect, disconnect, fetch_state and push_state as   *)
(* they interleave on one asyncio event loop.  A step of the model is the  *)
(* code a coroutine runs between two suspension points.                    *)
(***************************************************************************)
EXTENDS Integers, Sequences, FiniteSets, TLC

\* ---------------------------------------------------------------- bounds
NTasks == 2

Tasks == 1..NTasks
Devices == {"A", "B"}
None == "None"

\* ------------------------------------------------------------- constants
BATTERY_UUID == "BATTERY_UUID"
MANUFACTURER_UUID == "MANUFACTURER_UUID"
UPDATED_AT_UUID == "UPDATED_AT_UUID"
VALVE_MANUAL_SETTINGS_UUID == "VALVE_MANUAL_SETTINGS_UUID"
VALVE_MANUAL_STATES_UUID == "VALVE_MANUAL_STATES_UUID"

\* fetch_state: uuids = [BATTERY_UUID, VALVE_MANUAL_SETTINGS_UUID, VALVE_MANUAL_STATES_UUID]
uuids == <<BATTERY_UUID, VALVE_MANUAL_SETTINGS_UUID, VALVE_MANUAL_STATES_UUID>>

\* ----------------------------------------------- values of transport calls
\* The outcome of an awaited transport call: bytes, or a raised exception.
Bytes(b) == [ok |-> TRUE, val |-> b, exc |-> "none"]
Raised(e) == [ok |-> FALSE, val |-> <<>>, exc |-> e]
NotYet == [ok |-> FALSE, val |-> <<>>, exc |-> "pending"]

\* One completed transport call of a coroutine.
Call(name, arg, res) == [call |-> name, arg |-> arg, ok |-> res.ok, val |-> res.val, exc |-> res.exc]

\* ------------------------------------------------------------ input sets
\* ASCII payloads of the manufacturer characteristic.
Ascii(digits) == [i \in 1..Len(digits) |-> 48 + digits[i]]
ManufacturerInputs ==
    { Ascii(<<1, 1, 1, 1, 1, 0, 4, 0, 0>>),
      Ascii(<<1, 1, 1, 1, 1, 0, 1, 0, 0>>),
      Ascii(<<1, 1, 1, 1, 1, 0, 2, 0, 0>>),
      Ascii(<<2, 2, 2, 2, 2, 0, 3, 0, 0>>),
      Ascii(<<1, 1, 1, 1, 1>>) }

\* The service tables a connected client can expose.
ServiceInputs ==
    { {VALVE_MANUAL_SETTINGS_UUID, UPDATED_AT_UUID},
      {VALVE_MANUAL_SETTINGS_UUID},
      {UPDATED_AT_UUID},
      {} }

\* >?HH : one zone block of the settings characteristic
SettingsBlock(w, m) == <<w, m \div 256, m % 256, m \div 256, m % 256>>
\* >bI : one zone block of the states characteristic
StatesBlock(r, c) ==
    <<r, c \div 16777216, (c \div 65536) % 256, (c \div 256) % 256, c % 256>>

\* Payloads of the three characteristics fetch_state reads.
ReadInputs(uuid) ==
    CASE uuid = BATTERY_UUID -> { <<2, 133>> }
      [] uuid = VALVE_MANUAL_SETTINGS_UUID ->
            { SettingsBlock(1, 5) \o SettingsBlock(1, 10)
                \o SettingsBlock(1, 15) \o SettingsBlock(1, 20) }
      [] uuid = VALVE_MANUAL_STATES_UUID ->
            { StatesBlock(1, 300) \o StatesBlock(1, 0)
                \o StatesBlock(1, 0) \o StatesBlock(1, 0) }

\* Values a caller assigns to manual_watering_minutes: one and two bytes wide.
MinutesInputs == {10, 300}

\* get_timestamp() of parser/date.py, the value written to UPDATED_AT_UUID
get_timestamp == 1000
\* time_shift() of parser/date.py
time_shift == 100

\* Buffers a caller hands to Valve.update_state directly.  A settings buffer
\* repeats one block [w][m][dup] four times: w other than 0 and 1, minutes of
\* one and two bytes, a duplicate field that differs.
SettingsSlice(w, m, dup) == <<w, m \div 256, m % 256, dup \div 256, dup % 256>>
Repeat4(block) == block \o block \o block \o block
Prefixes(buf, lens) == {SubSeq(buf, 1, n) : n \in lens}
SettingsBuffers ==
    {Repeat4(SettingsSlice(w, m, m)) : w \in {0, 1, 2}, m \in MinutesInputs}
        \cup {Repeat4(SettingsSlice(1, m, 7)) : m \in MinutesInputs}
        \cup Prefixes(Repeat4(SettingsSlice(1, 300, 300)), (0..4) \cup (15..19))
\* A states buffer repeats one block [1][counter] four times: no counter, the
\* counter equal to time_shift(), one below it, and the largest the model's
\* integers hold.
CounterInputs == {0, 50, time_shift, 2147483647}
StatesBuffers ==
    {Repeat4(StatesBlock(1, c)) : c \in CounterInputs}
        \cup Prefixes(Repeat4(StatesBlock(1, 300)), {4, 19})
ValveBuffers(uuid) ==
    IF uuid = VALVE_MANUAL_SETTINGS_UUID THEN SettingsBuffers ELSE StatesBuffers
\* the valves the caller uses: the first and the last
ValveSlots == {1, 4}

\* The inputs of the specification of concurrent callers: one 4-valve
\* peripheral that exposes both characteristics and reports the state a
\* Device starts with (battery 0, every zone off, 20 minutes, no end time).
ManufacturerQuiet == { Ascii(<<1, 1, 1, 1, 1, 0, 4, 0, 0>>) }
ServiceQuiet == { {VALVE_MANUAL_SETTINGS_UUID, UPDATED_AT_UUID} }
ReadQuiet(uuid) ==
    CASE uuid = BATTERY_UUID -> { <<2, 88>> }
      [] uuid = VALVE_MANUAL_SETTINGS_UUID ->
            { SettingsBlock(0, 20) \o SettingsBlock(0, 20)
                \o SettingsBlock(0, 20) \o SettingsBlock(0, 20) }
      [] uuid = VALVE_MANUAL_STATES_UUID ->
            { StatesBlock(0, 0) \o StatesBlock(0, 0)
                \o StatesBlock(0, 0) \o StatesBlock(0, 0) }

\* ----------------------------------------------------------------- state
VARIABLES
    task,                   \* per coroutine: its call, position and locals
    GLOBAL_BLUETOOTH_LOCK,  \* asyncio.Lock: owner and FIFO of waiters
    connection_lock,        \* Device._connection_lock (class attribute): owner
    device,                 \* per Device instance: its fields
    returned                \* the calls that returned or raised in the last step

vars == <<task, GLOBAL_BLUETOOTH_LOCK, connection_lock, device, returned>>

\* ----------------------------------------------------------------- Valve
\* Valve.__init__
NewValve(identifier) ==
    [id |-> identifier, is_watering |-> FALSE, manual_minutes |-> 20, end_time |-> 0]

\* struct.unpack_from(fmt, raw_bytes, offset) needs offset + size bytes
Fits(raw, offset, size) == Len(raw) >= offset + size
\* ">?"
unpack_bool(raw, offset) == raw[offset + 1] # 0
\* ">H"
unpack_H(raw, offset) == raw[offset + 1] * 256 + raw[offset + 2]
\* ">I"
unpack_I(raw, offset) ==
    raw[offset + 1] * 16777216 + raw[offset + 2] * 65536
        + raw[offset + 3] * 256 + raw[offset + 4]

\* update_state as it would be if every valve read the first block
update_state_NoOffset(valve, res, uuid) ==
    LET offset == 0 IN
    IF uuid = VALVE_MANUAL_SETTINGS_UUID THEN
        IF ~res.ok THEN [valve |-> valve, exc |-> "TypeError"]
        ELSE IF ~Fits(res.val, offset, 1) THEN [valve |-> valve, exc |-> "struct.error"]
        ELSE LET v1 == [valve EXCEPT !.is_watering = unpack_bool(res.val, offset)] IN
             IF ~Fits(res.val, offset + 1, 2) THEN [valve |-> v1, exc |-> "struct.error"]
             ELSE [valve |-> [v1 EXCEPT !.manual_minutes = unpack_H(res.val, offset + 1)],
                   exc |-> "none"]
    ELSE IF uuid = VALVE_MANUAL_STATES_UUID THEN
        IF ~res.ok THEN [valve |-> valve, exc |-> "TypeError"]
        ELSE IF ~Fits(res.val, offset + 1, 4) THEN [valve |-> valve, exc |-> "struct.error"]
        ELSE LET parsed_time == unpack_I(res.val, offset + 1) IN
             [valve |-> [valve EXCEPT !.end_time =
                            IF parsed_time # 0 THEN parsed_time - time_shift ELSE 0],
              exc |-> "none"]
    ELSE [valve |-> valve, exc |-> "none"]

\* update_state as it would be without the special case of a zero counter
update_state_AlwaysShift(valve, res, uuid) ==
    LET offset == valve.id * 5 IN
    IF uuid = VALVE_MANUAL_SETTINGS_UUID THEN
        IF ~res.ok THEN [valve |-> valve, exc |-> "TypeError"]
        ELSE IF ~Fits(res.val, offset, 1) THEN [valve |-> valve, exc |-> "struct.error"]
        ELSE LET v1 == [valve EXCEPT !.is_watering = unpack_bool(res.val, offset)] IN
             IF ~Fits(res.val, offset + 1, 2) THEN [valve |-> v1, exc |-> "struct.error"]
             ELSE [valve |-> [v1 EXCEPT !.manual_minutes = unpack_H(res.val, offset + 1)],
                   exc |-> "none"]
    ELSE IF uuid = VALVE_MANUAL_STATES_UUID THEN
        IF ~res.ok THEN [valve |-> valve, exc |-> "TypeError"]
        ELSE IF ~Fits(res.val, offset + 1, 4) THEN [valve |-> valve, exc |-> "struct.error"]
        ELSE LET parsed_time == unpack_I(res.val, offset + 1) IN
             [valve |-> [valve EXCEPT !.end_time =
                            parsed_time - time_shift],
              exc |-> "none"]
    ELSE [valve |-> valve, exc |-> "none"]

\* Valve.update_state(raw_bytes, uuid): the valve afterwards, and the exception
\* raised ("none" when it returns).  res is an entry of bytes_array: bytes, or
\* the exception object gather() put in their place.
update_state(valve, res, uuid) ==
    LET offset == valve.id * 5 IN
    IF uuid = VALVE_MANUAL_SETTINGS_UUID THEN
        IF ~res.ok THEN [valve |-> valve, exc |-> "TypeError"]
        ELSE IF ~Fits(res.val, offset, 1) THEN [valve |-> valve, exc |-> "struct.error"]
        ELSE LET v1 == [valve EXCEPT !.is_watering = unpack_bool(res.val, offset)] IN
             IF ~Fits(res.val, offset + 1, 2) THEN [valve |-> v1, exc |-> "struct.error"]
             ELSE [valve |-> [v1 EXCEPT !.manual_minutes = unpack_H(res.val, offset + 1)],
                   exc |-> "none"]
    ELSE IF uuid = VALVE_MANUAL_STATES_UUID THEN
        IF ~res.ok THEN [valve |-> valve, exc |-> "TypeError"]
        ELSE IF ~Fits(res.val, offset + 1, 4) THEN [valve |-> valve, exc |-> "struct.error"]
        ELSE LET parsed_time == unpack_I(res.val, offset + 1) IN
             [valve |-> [valve EXCEPT !.end_time =
                            IF parsed_time # 0 THEN parsed_time - time_shift ELSE 0],
              exc |-> "none"]
    ELSE [valve |-> valve, exc |-> "none"]

\* _manual_setting_bytes as it would be with the format "<?HH"
manual_setting_bytes_LittleEndian(valve) ==
    << IF valve.is_watering THEN 1 ELSE 0,
       valve.manual_minutes % 256, valve.manual_minutes \div 256,
       valve.manual_minutes % 256, valve.manual_minutes \div 256 >>

\* Valve._manual_setting_bytes: struct.pack(">?HH", ...)
manual_setting_bytes(valve) ==
    SettingsBlock(IF valve.is_watering THEN 1 ELSE 0, valve.manual_minutes)

\* parse_battery_value of parser/battery.py on a 2-byte payload
parse_battery_value(raw) ==
    LET value == raw[1] * 256 + raw[2]
        percent == ((value - 600) * 2) \div 3
    IN  IF percent < 0 THEN 0 ELSE IF percent > 100 THEN 100 ELSE percent

\* ---------------------------------------------------------------- Device
\* Device.__init__ ; link is the state of self._connection: "unset" before the
\* attribute is first assigned, then the client's link, "open" or "closed".
\* model and valve_count are unset attributes until _read_model assigns them.
Unset == 0 - 1
NewDevice ==
    [ battery |-> 0,
      is_connected |-> FALSE,
      link |-> "unset",
      services |-> {},
      model |-> <<>>,
      valve_count |-> Unset,
      valves |-> [i \in 1..4 |-> NewValve(i - 1)] ]

\* Device.zone1 .. Device.zone4: the set holding the index into _valves of the
\* Valve returned, empty when the property returns None
zone1(dv) == {0}
zone2(dv) == IF dv.valve_count > 1 THEN {1} ELSE {}
zone3(dv) == IF dv.valve_count > 2 THEN {2} ELSE {}
\* zone4 as it would be if it were exposed only by a 4-valve device
zone4_FourValvesOnly(dv) == IF dv.valve_count > 3 THEN {3} ELSE {}
zone4(dv) == IF dv.valve_count > 2 THEN {3} ELSE {}

\* Device.__getitem__
getitem(dv, key) ==
    IF key = "zone1" THEN zone1(dv)
    ELSE IF key = "zone2" THEN zone2(dv)
    ELSE IF key = "zone3" THEN zone3(dv)
    ELSE IF key = "zone4" THEN zone4(dv)
    ELSE {}

\* _read_model as it would be if it took the count from string[5:6]
read_model_Byte5(dv, manufacturer_data) ==
    LET string == manufacturer_data
        m == SubSeq(string, 1, IF Len(string) < 5 THEN Len(string) ELSE 5)
        d1 == [dv EXCEPT !.model = m]
    IN  IF Len(string) >= 6 /\ string[6] \in 48..57
        THEN [dv |-> [d1 EXCEPT !.valve_count = string[6] - 48], exc |-> "none"]
        ELSE [dv |-> d1, exc |-> "ValueError"]

\* Device._read_model after the read returned manufacturer_data: the model
\* string[0:5], int(string[6:7]), and the exception int() raises on a slice
\* that is no decimal digit.
read_model(dv, manufacturer_data) ==
    LET string == manufacturer_data
        m == SubSeq(string, 1, IF Len(string) < 5 THEN Len(string) ELSE 5)
        d1 == [dv EXCEPT !.model = m]
    IN  IF Len(string) >= 7 /\ string[7] \in 48..57
        THEN [dv |-> [d1 EXCEPT !.valve_count = string[7] - 48], exc |-> "none"]
        ELSE [dv |-> d1, exc |-> "ValueError"]

\* Below, "CHOOSE out \in { e : r \in {x} } : TRUE" is e with r the value of
\* x, computed once: LET r == x IN e.
\* fetch_state, "for valve in self._valves: valve.update_state(...)": the
\* valves after the loop and the exception that ended it early, if any.
RECURSIVE update_valves(_, _, _, _)
update_valves(valves, k, res, uuid) ==
    IF k > Len(valves) THEN [valves |-> valves, exc |-> "none"]
    ELSE CHOOSE out \in
             { LET vs == [valves EXCEPT ![k] = r.valve]
               IN  IF r.exc # "none" THEN [valves |-> vs, exc |-> r.exc]
                   ELSE update_valves(vs, k + 1, res, uuid)
               : r \in {update_state(valves[k], res, uuid)} } : TRUE

\* fetch_state, the body of "for i, some_bytes in enumerate(bytes_array)" from
\* index i (1-based) on: the device afterwards and the exception raised.
RECURSIVE fetch_loop(_, _, _)
fetch_loop(dv, bytes_array, i) ==
    IF i > Len(uuids) THEN [dv |-> dv, exc |-> "none"]
    ELSE LET uuid == uuids[i]
             some_bytes == bytes_array[uuid]
         IN  IF uuid = BATTERY_UUID /\ ~some_bytes.ok
             THEN [dv |-> dv, exc |-> "TypeError"]
             ELSE CHOOSE out \in
                      { CHOOSE after \in
                            { LET d2 == [d1 EXCEPT !.valves = r.valves]
                              IN  IF r.exc # "none" THEN [dv |-> d2, exc |-> r.exc]
                                  ELSE fetch_loop(d2, bytes_array, i + 1)
                              : r \in {update_valves(d1.valves, 1, some_bytes, uuid)} } : TRUE
                        : d1 \in { IF uuid = BATTERY_UUID
                                   THEN [dv EXCEPT !.battery = parse_battery_value(some_bytes.val)]
                                   ELSE dv } } : TRUE

\* fetch_state, the try statement after gather() returned: the loop, then
\* "except BleakError: if self._is_connected: raise".  exc is what reaches
\* the caller.
fetch_process(dv, bytes_array) ==
    LET r == fetch_loop(dv, bytes_array, 1) IN
    IF r.exc = "BleakError" /\ ~r.dv.is_connected
    THEN [dv |-> r.dv, exc |-> "none"]
    ELSE r

\* the settings payload as it would be if only the zones valve_count exposes
\* were written
settings_payload_ExposedOnly(dv) ==
    manual_setting_bytes(dv.valves[1])
        \o (IF dv.valve_count > 1 THEN manual_setting_bytes(dv.valves[2]) ELSE <<>>)
        \o (IF dv.valve_count > 2 THEN manual_setting_bytes(dv.valves[3]) ELSE <<>>)
        \o (IF dv.valve_count > 2 THEN manual_setting_bytes(dv.valves[4]) ELSE <<>>)

\* push_state, the payload of the settings write
settings_payload(dv) ==
    manual_setting_bytes(dv.valves[1]) \o manual_setting_bytes(dv.valves[2])
        \o manual_setting_bytes(dv.valves[3]) \o manual_setting_bytes(dv.valves[4])

\* struct.pack(">I", get_timestamp())
timestamp_payload == Tail(StatesBlock(0, get_timestamp))

\* ------------------------------------------------------------- asyncio.Lock
\* acquire() returns at once only when the lock is free and nobody waits;
\* release() wakes the first waiter, which then owns the lock.
Free(g) == g.locked_by = {} /\ g.waiters = <<>>
Acquired(g, t) == [g EXCEPT !.locked_by = {t}]
Queued(g, t) == [g EXCEPT !.waiters = Append(@, t)]
Release_NoWake(g) == [locked_by |-> {}, waiters |-> g.waiters]

Release(g) ==
    IF g.waiters = <<>> THEN [locked_by |-> {}, waiters |-> <<>>]
    ELSE [locked_by |-> {Head(g.waiters)}, waiters |-> Tail(g.waiters)]

\* ------------------------------------------------------------- coroutines
\* A coroutine's position:
\*   c_wait, d_wait, f_wait, p_wait   waiting for GLOBAL_BLUETOOTH_LOCK
\*   c_establish                      awaiting establish_connection
\*   c_read_model                     awaiting read_gatt_char(MANUFACTURER_UUID)
\*   d_disconnect                     awaiting _connection.disconnect()
\*   f_gather                         awaiting gather() of the three reads
\*   p_write_settings, p_write_updated  awaiting write_gatt_char
\* trace holds the transport calls the function running in the coroutine has
\* awaited one by one, in order; the reads of gather() are in bytes_array.  joined: connect() was called
\* while a connection attempt for the same device was in flight.  raced: the
\* call was made while a connection attempt for another device was in flight.
\* connected_at_issue: _is_connected when the reads or the write were started.
NoBytes == [u \in {uuids[i] : i \in 1..Len(uuids)} |-> NotYet]

IdleTask ==
    [ op |-> "none", dev |-> None, pc |-> "idle", trace |-> <<>>,
      joined |-> FALSE, raced |-> FALSE, bytes_array |-> NoBytes,
      connected_at_issue |-> FALSE, payload |-> <<>> ]

\* A helper below takes the coroutine t, its record tk, the global lock g, the
\* connection lock cl and the device dv as they are when the code is reached,
\* and gives them as they are at the coroutine's next suspension point, with
\* the calls that returned or raised on the way (ev).
Step(tk, g, cl, ev) == [tk |-> tk, g |-> g, cl |-> cl, ev |-> ev]
\* the function fn of coroutine t is left with ret ("ok", or the exception)
Left(t, fn, tk, ret) ==
    [t |-> t, fn |-> fn, ret |-> ret, tk |-> tk, key |-> 0, val |-> {}]
\* the coroutine's outermost call is left
Finish(t, tk, ret, g, cl) == Step(IdleTask, g, cl, <<Left(t, tk.op, tk, ret)>>)
After(ev, step) == [step EXCEPT !.ev = <<ev>> \o @]
Logged(tk, c) == [tk EXCEPT !.trace = Append(@, c)]

\* push_state from "updated_at = ..." to the end
PushUpdatedAt(t, tk, g, cl, dv) ==
    IF UPDATED_AT_UUID \in dv.services
    THEN Step([tk EXCEPT !.pc = "p_write_updated", !.payload = timestamp_payload,
                         !.connected_at_issue = dv.is_connected], g, cl, <<>>)
    ELSE Finish(t, tk, "ok", Release(g), cl)

\* push_state as it would be if it used on_off.handle without testing on_off
PushLocked_HandleOfNone(t, tk, g, cl, dv) ==
    IF dv.link = "unset" \/ VALVE_MANUAL_SETTINGS_UUID \notin dv.services
    THEN Finish(t, tk, "AttributeError", Release(g), cl)
    ELSE Step([tk EXCEPT !.pc = "p_write_settings", !.payload = settings_payload(dv),
                         !.connected_at_issue = dv.is_connected], g, cl, <<>>)

\* push_state inside "async with GLOBAL_BLUETOOTH_LOCK"
PushLocked(t, tk, g, cl, dv) ==
    IF dv.link = "unset" THEN Finish(t, tk, "AttributeError", Release(g), cl)
    ELSE IF VALVE_MANUAL_SETTINGS_UUID \in dv.services
    THEN Step([tk EXCEPT !.pc = "p_write_settings", !.payload = settings_payload(dv),
                         !.connected_at_issue = dv.is_connected], g, cl, <<>>)
    ELSE PushUpdatedAt(t, tk, g, cl, dv)

\* push_state at "async with GLOBAL_BLUETOOTH_LOCK"
PushBegin(t, tk, g, cl, dv) ==
    IF Free(g) THEN PushLocked(t, tk, Acquired(g, t), cl, dv)
    ELSE Step([tk EXCEPT !.pc = "p_wait"], Queued(g, t), cl, <<>>)

\* fetch_state inside "async with GLOBAL_BLUETOOTH_LOCK": gather() starts the
\* three _read coroutines; without a _connection attribute each raises at once.
FetchLocked(t, tk, g, cl, dv) ==
    Step([tk EXCEPT !.pc = "f_gather",
                    !.connected_at_issue = dv.is_connected,
                    !.bytes_array = IF dv.link = "unset"
                                    THEN [u \in DOMAIN NoBytes |-> Raised("AttributeError")]
                                    ELSE NoBytes],
         g, cl, <<>>)

\* fetch_state as it would be if it started its reads without the lock
FetchBegin_Ungated(t, tk, g, cl, dv) == FetchLocked(t, tk, g, cl, dv)

\* fetch_state at "async with GLOBAL_BLUETOOTH_LOCK"
FetchBegin(t, tk, g, cl, dv) ==
    IF Free(g) THEN FetchLocked(t, tk, Acquired(g, t), cl, dv)
    ELSE Step([tk EXCEPT !.pc = "f_wait"], Queued(g, t), cl, <<>>)

\* connect() returned normally to its caller, both locks released
ConnectReturn(t, tk, g, cl, dv) ==
    IF tk.op = "fetch_state"
    THEN After(Left(t, "connect", tk, "ok"),
               FetchBegin(t, [tk EXCEPT !.trace = <<>>], g, cl, dv))
    ELSE IF tk.op = "push_state"
    THEN After(Left(t, "connect", tk, "ok"),
               PushBegin(t, [tk EXCEPT !.trace = <<>>], g, cl, dv))
    ELSE Finish(t, tk, "ok", g, cl)

\* connect() raised exc, both locks released; fetch_state or push_state around
\* it does not catch it
ConnectRaise(t, tk, exc, g, cl) ==
    IF tk.op = "connect" THEN Finish(t, tk, exc, g, cl)
    ELSE After(Left(t, "connect", tk, exc), Finish(t, tk, exc, g, cl))

\* connect as it would be if it tested only _connection_lock.locked()
ConnectLocked_LockOnly(t, tk, g, cl, dv) ==
    IF cl # {}
    THEN ConnectReturn(t, tk, Release(g), cl, dv)
    ELSE Step([tk EXCEPT !.pc = "c_establish"], g, {t}, <<>>)

\* connect inside "async with GLOBAL_BLUETOOTH_LOCK"
ConnectLocked(t, tk, g, cl, dv) ==
    IF dv.is_connected \/ cl # {}
    THEN ConnectReturn(t, tk, Release(g), cl, dv)
    ELSE Step([tk EXCEPT !.pc = "c_establish"], g, {t}, <<>>)

\* connect as it would be if it tested _connection_lock.locked() before
\* waiting for GLOBAL_BLUETOOTH_LOCK
ConnectBegin_TryLockFirst(t, tk, g, cl, dv) ==
    IF cl # {} THEN ConnectReturn(t, tk, g, cl, dv)
    ELSE IF Free(g) THEN ConnectLocked(t, tk, Acquired(g, t), cl, dv)
    ELSE Step([tk EXCEPT !.pc = "c_wait"], Queued(g, t), cl, <<>>)

\* connect at "async with GLOBAL_BLUETOOTH_LOCK"
ConnectBegin(t, tk, g, cl, dv) ==
    IF Free(g) THEN ConnectLocked(t, tk, Acquired(g, t), cl, dv)
    ELSE Step([tk EXCEPT !.pc = "c_wait"], Queued(g, t), cl, <<>>)

\* disconnect inside "async with GLOBAL_BLUETOOTH_LOCK"
DisconnectLocked(t, tk, g, cl, dv) ==
    IF dv.link = "unset" THEN Finish(t, tk, "AttributeError", Release(g), cl)
    ELSE Step([tk EXCEPT !.pc = "d_disconnect"], g, cl, <<>>)

\* disconnect at "async with GLOBAL_BLUETOOTH_LOCK"
DisconnectBegin(t, tk, g, cl, dv) ==
    IF Free(g) THEN DisconnectLocked(t, tk, Acquired(g, t), cl, dv)
    ELSE Step([tk EXCEPT !.pc = "d_wait"], Queued(g, t), cl, <<>>)

\* Device.disconnected_callback
disconnected_callback(dv) == [dv EXCEPT !.is_connected = FALSE]

\* ------------------------------------------------------------------ Init
Init ==
    /\ task = [t \in Tasks |-> IdleTask]
    /\ GLOBAL_BLUETOOTH_LOCK = [locked_by |-> {}, waiters |-> <<>>]
    /\ connection_lock = {}
    /\ device = [d \in Devices |-> NewDevice]
    /\ returned = <<>>

\* --------------------------------------------------------------- actions
Apply(t, r) ==
    /\ task' = [task EXCEPT ![t] = r.tk]
    /\ GLOBAL_BLUETOOTH_LOCK' = r.g
    /\ connection_lock' = r.cl
    /\ returned' = r.ev

\* a connection attempt for device d is in flight
Connecting(d) ==
    \E u \in Tasks : task[u].dev = d /\ task[u].pc \in {"c_establish", "c_read_model"}

Started(o, d) ==
    [IdleTask EXCEPT !.op = o, !.dev = d,
                     !.joined = (o = "connect" /\ Connecting(d)),
                     !.raced = \E other \in Devices \ {d} : Connecting(other)]

At(t, where) == task[t].pc = where
Dev(t) == device[task[t].dev]
SetDevice(t, dv) == device' = [device EXCEPT ![task[t].dev] = dv]

\* a caller starts Device.connect()
CallConnect(t, d) ==
    /\ At(t, "idle")
    /\ Apply(t, ConnectBegin(t, Started("connect", d), GLOBAL_BLUETOOTH_LOCK,
                             connection_lock, device[d]))
    /\ UNCHANGED device

\* a caller starts Device.disconnect()
CallDisconnect(t, d) ==
    /\ At(t, "idle")
    /\ Apply(t, DisconnectBegin(t, Started("disconnect", d), GLOBAL_BLUETOOTH_LOCK,
                                connection_lock, device[d]))
    /\ UNCHANGED device

\* a caller starts Device.fetch_state(): "if not self._is_connected: await connect"
CallFetchState(t, d) ==
    /\ At(t, "idle")
    /\ Apply(t, IF ~device[d].is_connected
                THEN ConnectBegin(t, Started("fetch_state", d), GLOBAL_BLUETOOTH_LOCK,
                                  connection_lock, device[d])
                ELSE FetchBegin(t, Started("fetch_state", d), GLOBAL_BLUETOOTH_LOCK,
                                connection_lock, device[d]))
    /\ UNCHANGED device

\* a caller starts Device.push_state(): "if not self._is_connected: await connect"
CallPushState(t, d) ==
    /\ At(t, "idle")
    /\ Apply(t, IF ~device[d].is_connected
                THEN ConnectBegin(t, Started("push_state", d), GLOBAL_BLUETOOTH_LOCK,
                                  connection_lock, device[d])
                ELSE PushBegin(t, Started("push_state", d), GLOBAL_BLUETOOTH_LOCK,
                               connection_lock, device[d]))
    /\ UNCHANGED device

\* a waiter woken by release() runs on
Woken(t, waitpc) ==
    task[t].pc = waitpc /\ GLOBAL_BLUETOOTH_LOCK.locked_by = {t}

ConnectResume(t) ==
    /\ Woken(t, "c_wait")
    /\ Apply(t, ConnectLocked(t, task[t], GLOBAL_BLUETOOTH_LOCK, connection_lock, Dev(t)))
    /\ UNCHANGED device

DisconnectResume(t) ==
    /\ Woken(t, "d_wait")
    /\ Apply(t, DisconnectLocked(t, task[t], GLOBAL_BLUETOOTH_LOCK, connection_lock, Dev(t)))
    /\ UNCHANGED device

FetchResume(t) ==
    /\ Woken(t, "f_wait")
    /\ Apply(t, FetchLocked(t, task[t], GLOBAL_BLUETOOTH_LOCK, connection_lock, Dev(t)))
    /\ UNCHANGED device

PushResume(t) ==
    /\ Woken(t, "p_wait")
    /\ Apply(t, PushLocked(t, task[t], GLOBAL_BLUETOOTH_LOCK, connection_lock, Dev(t)))
    /\ UNCHANGED device

\* establish_connection returned a client: "self._connection = ...", then
\* "self._is_connected = True", then _read_model starts its read
EstablishOk(t, services) ==
    /\ At(t, "c_establish")
    /\ SetDevice(t, [Dev(t) EXCEPT !.link = "open", !.services = services,
                                   !.is_connected = TRUE])
    /\ Apply(t, Step([Logged(task[t], Call("establish_connection", "", Bytes(<<>>)))
                         EXCEPT !.pc = "c_read_model"],
                     GLOBAL_BLUETOOTH_LOCK, connection_lock, <<>>))

\* establish_connection raised BleakError: "except BleakError", both locks released
EstablishFail(t) ==
    /\ At(t, "c_establish")
    /\ LET dv == [Dev(t) EXCEPT !.is_connected = FALSE] IN
       /\ SetDevice(t, dv)
       /\ Apply(t, ConnectReturn(t,
                     Logged(task[t], Call("establish_connection", "", Raised("BleakError"))),
                     Release(GLOBAL_BLUETOOTH_LOCK), {}, dv))

\* the read of _read_model returned manufacturer_data; connect returns, or the
\* ValueError of int() leaves connect
ReadModelOk(t, manufacturer_data) ==
    /\ At(t, "c_read_model")
    /\ Dev(t).link = "open"
    /\ LET r == read_model(Dev(t), manufacturer_data)
           tk == Logged(task[t], Call("read_gatt_char", MANUFACTURER_UUID,
                                      Bytes(manufacturer_data)))
       IN  /\ SetDevice(t, r.dv)
           /\ Apply(t, IF r.exc = "none"
                       THEN ConnectReturn(t, tk, Release(GLOBAL_BLUETOOTH_LOCK), {}, r.dv)
                       ELSE ConnectRaise(t, tk, r.exc, Release(GLOBAL_BLUETOOTH_LOCK), {}))

\* connect as it would be without "except BleakError" around _read_model
ReadModelFail_Uncaught(t) ==
    /\ At(t, "c_read_model")
    /\ Apply(t, ConnectRaise(t,
                  Logged(task[t], Call("read_gatt_char", MANUFACTURER_UUID,
                                       Raised("BleakError"))),
                  "BleakError", Release(GLOBAL_BLUETOOTH_LOCK), {}))
    /\ UNCHANGED device

\* the read of _read_model raised BleakError: "except BleakError"
ReadModelFail(t) ==
    /\ At(t, "c_read_model")
    /\ LET dv == [Dev(t) EXCEPT !.is_connected = FALSE] IN
       /\ SetDevice(t, dv)
       /\ Apply(t, ConnectReturn(t,
                     Logged(task[t], Call("read_gatt_char", MANUFACTURER_UUID,
                                          Raised("BleakError"))),
                     Release(GLOBAL_BLUETOOTH_LOCK), {}, dv))

\* _connection.disconnect() returned: the link is closed, and the transport
\* has called disconnected_callback if it was open
DisconnectOk(t) ==
    /\ At(t, "d_disconnect")
    /\ SetDevice(t, IF Dev(t).link = "open"
                    THEN [disconnected_callback(Dev(t)) EXCEPT !.link = "closed"]
                    ELSE Dev(t))
    /\ Apply(t, Finish(t, Logged(task[t], Call("disconnect", "", Bytes(<<>>))), "ok",
                       Release(GLOBAL_BLUETOOTH_LOCK), connection_lock))

\* disconnect as it would be if the failure left the lock held
DisconnectFail_LockKept(t) ==
    /\ At(t, "d_disconnect")
    /\ Apply(t, Finish(t, Logged(task[t], Call("disconnect", "", Raised("BleakError"))),
                       "BleakError", GLOBAL_BLUETOOTH_LOCK, connection_lock))
    /\ UNCHANGED device

\* _connection.disconnect() raised BleakError
DisconnectFail(t) ==
    /\ At(t, "d_disconnect")
    /\ Apply(t, Finish(t, Logged(task[t], Call("disconnect", "", Raised("BleakError"))),
                       "BleakError", Release(GLOBAL_BLUETOOTH_LOCK), connection_lock))
    /\ UNCHANGED device

\* one read of the gather() returned bytes
ReadOk(t, uuid, data) ==
    /\ At(t, "f_gather")
    /\ task[t].bytes_array[uuid] = NotYet
    /\ Dev(t).link = "open"
    /\ Apply(t, Step([task[t] EXCEPT !.bytes_array[uuid] = Bytes(data)],
                     GLOBAL_BLUETOOTH_LOCK, connection_lock, <<>>))
    /\ UNCHANGED device

\* one read of the gather() raised BleakError, kept as a value (return_exceptions)
ReadFail(t, uuid) ==
    /\ At(t, "f_gather")
    /\ task[t].bytes_array[uuid] = NotYet
    /\ Apply(t, Step([task[t] EXCEPT !.bytes_array[uuid] = Raised("BleakError")],
                     GLOBAL_BLUETOOTH_LOCK, connection_lock, <<>>))
    /\ UNCHANGED device

\* gather() returned: the loop over bytes_array, the except clause, the release
FetchDecode(t) ==
    /\ At(t, "f_gather")
    /\ \A u \in DOMAIN task[t].bytes_array : task[t].bytes_array[u] # NotYet
    /\ LET r == fetch_process(Dev(t), task[t].bytes_array) IN
       /\ SetDevice(t, r.dv)
       /\ Apply(t, Finish(t, task[t], IF r.exc = "none" THEN "ok" ELSE r.exc,
                          Release(GLOBAL_BLUETOOTH_LOCK), connection_lock))

\* the settings write returned
WriteSettingsOk(t) ==
    /\ At(t, "p_write_settings")
    /\ Dev(t).link = "open"
    /\ Apply(t, PushUpdatedAt(t,
                  Logged(task[t], Call("write_gatt_char", VALVE_MANUAL_SETTINGS_UUID,
                                       Bytes(task[t].payload))),
                  GLOBAL_BLUETOOTH_LOCK, connection_lock, Dev(t)))
    /\ UNCHANGED device

\* the settings write raised BleakError
WriteSettingsFail(t) ==
    /\ At(t, "p_write_settings")
    /\ Apply(t, Finish(t, Logged(task[t], Call("write_gatt_char",
                              VALVE_MANUAL_SETTINGS_UUID, Raised("BleakError"))),
                       "BleakError", Release(GLOBAL_BLUETOOTH_LOCK), connection_lock))
    /\ UNCHANGED device

\* the updated-at write returned
WriteUpdatedOk(t) ==
    /\ At(t, "p_write_updated")
    /\ Dev(t).link = "open"
    /\ Apply(t, Finish(t, Logged(task[t], Call("write_gatt_char", UPDATED_AT_UUID,
                                               Bytes(task[t].payload))),
                       "ok", Release(GLOBAL_BLUETOOTH_LOCK), connection_lock))
    /\ UNCHANGED device

\* the updated-at write raised BleakError
WriteUpdatedFail(t) ==
    /\ At(t, "p_write_updated")
    /\ Apply(t, Finish(t, Logged(task[t], Call("write_gatt_char", UPDATED_AT_UUID,
                                               Raised("BleakError"))),
                       "BleakError", Release(GLOBAL_BLUETOOTH_LOCK), connection_lock))
    /\ UNCHANGED device

\* the link of the current client drops: the transport calls disconnected_callback
LinkDrop(d) ==
    /\ device[d].link = "open"
    /\ device' = [device EXCEPT ![d] = [disconnected_callback(device[d]) EXCEPT !.link = "closed"]]
    /\ returned' = <<>>
    /\ UNCHANGED <<task, GLOBAL_BLUETOOTH_LOCK, connection_lock>>

\* A caller reads the property zone<n> ("property") or evaluates
\* device["zone<n>"] ("getitem"), n in 1..4: what it gets.  Both raise
\* AttributeError for n > 1 while _valve_count is not yet an attribute.
zone(dv, n) ==
    IF n = 1 THEN zone1(dv) ELSE IF n = 2 THEN zone2(dv)
    ELSE IF n = 3 THEN zone3(dv) ELSE zone4(dv)

ZoneKeys == <<"zone1", "zone2", "zone3", "zone4">>

Accessed(d, n, how, dv) ==
    LET unset == n > 1 /\ dv.valve_count = Unset IN
    [ t |-> 0, fn |-> how, tk |-> [IdleTask EXCEPT !.dev = d], key |-> n,
      ret |-> IF unset THEN "AttributeError" ELSE "ok",
      val |-> IF unset THEN {}
              ELSE IF how = "property" THEN zone(dv, n)
              ELSE getitem(dv, ZoneKeys[n]) ]

ReadZone(d, n) ==
    /\ returned' = <<Accessed(d, n, "property", device[d])>>
    /\ UNCHANGED <<task, GLOBAL_BLUETOOTH_LOCK, connection_lock, device>>

GetItem(d, n) ==
    /\ returned' = <<Accessed(d, n, "getitem", device[d])>>
    /\ UNCHANGED <<task, GLOBAL_BLUETOOTH_LOCK, connection_lock, device>>

\* a caller can reach the Valve of zone n through device.zone<n>
Reachable(dv, n) ==
    /\ n > 1 => dv.valve_count # Unset
    /\ zone(dv, n) # {}

\* a caller assigns device.zone<n>.is_watering
SetIsWatering(d, n, value) ==
    /\ Reachable(device[d], n)
    /\ device[d].valves[n].is_watering # value
    /\ device' = [device EXCEPT ![d].valves[n].is_watering = value]
    /\ returned' = <<>>
    /\ UNCHANGED <<task, GLOBAL_BLUETOOTH_LOCK, connection_lock>>

\* a caller assigns device.zone<n>.manual_watering_minutes
SetManualMinutes(d, n, value) ==
    /\ Reachable(device[d], n)
    /\ device[d].valves[n].manual_minutes # value
    /\ device' = [device EXCEPT ![d].valves[n].manual_minutes = value]
    /\ returned' = <<>>
    /\ UNCHANGED <<task, GLOBAL_BLUETOOTH_LOCK, connection_lock>>

\* a caller calls update_state(raw, uuid) on the Valve _valves[n - 1]; the
\* event keeps the buffer and the valve as it was before the call
ValveUpdateState(d, n, raw, uuid) ==
    LET before == device[d].valves[n]
        r == update_state(before, Bytes(raw), uuid)
    IN  /\ device' = [device EXCEPT ![d].valves[n] = r.valve]
        /\ returned' =
              << [ t |-> 0, fn |-> "update_state",
                   tk |-> [IdleTask EXCEPT !.dev = d,
                              !.trace = <<Call("update_state", uuid, Bytes(raw))>>],
                   key |-> n,
                   ret |-> IF r.exc = "none" THEN "ok" ELSE r.exc,
                   val |-> {before} ] >>
        /\ UNCHANGED <<task, GLOBAL_BLUETOOTH_LOCK, connection_lock>>

\* The steps of concurrent callers on the devices D, whose peripherals report
\* the state a Device starts with.
Concurrent(D) ==
    \/ \E t \in Tasks, d \in D : CallConnect(t, d)
    \/ \E t \in Tasks, d \in D : CallDisconnect(t, d)
    \/ \E t \in Tasks, d \in D : CallFetchState(t, d)
    \/ \E t \in Tasks, d \in D : CallPushState(t, d)
    \/ \E t \in Tasks : ConnectResume(t)
    \/ \E t \in Tasks : DisconnectResume(t)
    \/ \E t \in Tasks : FetchResume(t)
    \/ \E t \in Tasks : PushResume(t)
    \/ \E t \in Tasks, services \in ServiceQuiet : EstablishOk(t, services)
    \/ \E t \in Tasks : EstablishFail(t)
    \/ \E t \in Tasks, data \in ManufacturerQuiet : ReadModelOk(t, data)
    \/ \E t \in Tasks : ReadModelFail(t)
    \/ \E t \in Tasks : DisconnectOk(t)
    \/ \E t \in Tasks : DisconnectFail(t)
    \/ \E t \in Tasks, i \in 1..Len(uuids) : \E data \in ReadQuiet(uuids[i]) :
          ReadOk(t, uuids[i], data)
    \/ \E t \in Tasks, i \in 1..Len(uuids) : ReadFail(t, uuids[i])
    \/ \E t \in Tasks : FetchDecode(t)
    \/ \E t \in Tasks : WriteSettingsOk(t)
    \/ \E t \in Tasks : WriteSettingsFail(t)
    \/ \E t \in Tasks : WriteUpdatedOk(t)
    \/ \E t \in Tasks : WriteUpdatedFail(t)
    \/ \E d \in D : LinkDrop(d)

\* Concurrent callers of one device.
Next == Concurrent({"A"})
Spec == Init /\ [][Next]_vars

\* Concurrent callers of two devices that share the radio.
NextDevices == Concurrent(Devices)
SpecDevices == Init /\ [][NextDevices]_vars

\* What the event loop and the transport do for coroutine t once it is
\* started: resume it when the lock is handed to it, and complete, with a
\* result or an exception, the transport call it awaits.
Advance(t) ==
    \/ ConnectResume(t)
    \/ DisconnectResume(t)
    \/ FetchResume(t)
    \/ PushResume(t)
    \/ \E services \in ServiceQuiet : EstablishOk(t, services)
    \/ EstablishFail(t)
    \/ \E data \in ManufacturerQuiet : ReadModelOk(t, data)
    \/ ReadModelFail(t)
    \/ DisconnectOk(t)
    \/ DisconnectFail(t)
    \/ \E i \in 1..Len(uuids) : \E data \in ReadQuiet(uuids[i]) : ReadOk(t, uuids[i], data)
    \/ \E i \in 1..Len(uuids) : ReadFail(t, uuids[i])
    \/ FetchDecode(t)
    \/ WriteSettingsOk(t)
    \/ WriteSettingsFail(t)
    \/ WriteUpdatedOk(t)
    \/ WriteUpdatedFail(t)

\* Concurrent callers of one device, every awaited transport call eventually
\* returning or raising and every runnable coroutine eventually run.
FairSpec == Init /\ [][Next]_vars /\ \A t \in Tasks : WF_vars(Advance(t))

\* One caller of one device, which awaits each call before the next, with
\* every input payload and service table; it also reads the zone accessors.
Caller == CHOOSE t \in Tasks : \A u \in Tasks : t <= u
NextSeq ==
    \/ CallConnect(Caller, "A")
    \/ CallDisconnect(Caller, "A")
    \/ CallFetchState(Caller, "A")
    \/ CallPushState(Caller, "A")
    \/ \E services \in ServiceInputs : EstablishOk(Caller, services)
    \/ EstablishFail(Caller)
    \/ \E data \in ManufacturerInputs : ReadModelOk(Caller, data)
    \/ ReadModelFail(Caller)
    \/ DisconnectOk(Caller)
    \/ DisconnectFail(Caller)
    \/ \E i \in 1..Len(uuids) : \E data \in ReadInputs(uuids[i]) :
          ReadOk(Caller, uuids[i], data)
    \/ \E i \in 1..Len(uuids) : ReadFail(Caller, uuids[i])
    \/ FetchDecode(Caller)
    \/ WriteSettingsOk(Caller)
    \/ WriteSettingsFail(Caller)
    \/ WriteUpdatedOk(Caller)
    \/ WriteUpdatedFail(Caller)
    \/ LinkDrop("A")
    \/ \E n \in DOMAIN ZoneKeys : ReadZone("A", n)
    \/ \E n \in DOMAIN ZoneKeys : GetItem("A", n)
SpecSeq == Init /\ [][NextSeq]_vars

\* One caller of a 1-valve or 2-valve device that sets the fields of the zones
\* it can reach and pushes them, against every service table.
ManufacturerPush ==
    { Ascii(<<1, 1, 1, 1, 1, 0, 1, 0, 0>>), Ascii(<<1, 1, 1, 1, 1, 0, 2, 0, 0>>) }
NextPush ==
    \/ CallConnect(Caller, "A")
    \/ CallPushState(Caller, "A")
    \/ \E services \in ServiceInputs : EstablishOk(Caller, services)
    \/ EstablishFail(Caller)
    \/ \E data \in ManufacturerPush : ReadModelOk(Caller, data)
    \/ ReadModelFail(Caller)
    \/ WriteSettingsOk(Caller)
    \/ WriteSettingsFail(Caller)
    \/ WriteUpdatedOk(Caller)
    \/ WriteUpdatedFail(Caller)
    \/ LinkDrop("A")
    \/ \E n \in DOMAIN ZoneKeys, value \in BOOLEAN : SetIsWatering("A", n, value)
    \/ \E n \in DOMAIN ZoneKeys, value \in MinutesInputs : SetManualMinutes("A", n, value)
SpecPush == Init /\ [][NextPush]_vars

\* A caller that decodes buffers into two valves of a device directly.
NextValve ==
    \/ \E n \in ValveSlots : \E raw \in ValveBuffers(VALVE_MANUAL_SETTINGS_UUID) :
          ValveUpdateState("A", n, raw, VALVE_MANUAL_SETTINGS_UUID)
    \/ \E n \in ValveSlots : \E raw \in ValveBuffers(VALVE_MANUAL_STATES_UUID) :
          ValveUpdateState("A", n, raw, VALVE_MANUAL_STATES_UUID)
SpecValve == Init /\ [][NextValve]_vars

\* ---------------------------------------------------------------- claims
\* the transport calls coroutine t has in flight
InFlight(t) ==
    CASE task[t].pc \in {"c_establish", "c_read_model", "d_disconnect",
                         "p_write_settings", "p_write_updated"} -> 1
      [] task[t].pc = "f_gather" ->
            Cardinality({u \in DOMAIN task[t].bytes_array : task[t].bytes_array[u] = NotYet})
      [] OTHER -> 0
Returns == {returned[i] : i \in DOMAIN returned}
Entries(tk) == {tk.trace[i] : i \in DOMAIN tk.trace}
\* a transport call of connect() raised BleakError
ConnectFailed(tk) ==
    \E c \in Entries(tk) :
        /\ c.exc = "BleakError"
        /\ \/ c.call = "establish_connection"
           \/ c.call = "read_gatt_char" /\ c.arg = MANUFACTURER_UUID
\* a read of the gather() raised BleakError
ReadFailed(tk) == \E u \in DOMAIN tk.bytes_array : tk.bytes_array[u].exc = "BleakError"
\* characteristic reads or a write were handed to the transport by t
Issued(t) ==
    \/ task[t].pc \in {"p_write_settings", "p_write_updated"}
    \/ /\ task[t].pc = "f_gather"
       /\ \E u \in DOMAIN task[t].bytes_array : task[t].bytes_array[u].exc # "AttributeError"

\* C1: a connect() called while a connection attempt for the same device is in
\* flight never invokes establish_connection itself, so that the concurrent
\* callers make exactly one transport connect in total.
C1_OneTransportConnect ==
    \A t \in Tasks : task[t].joined => task[t].pc # "c_establish"

ValveReadFailed(tk) == tk.bytes_array[BATTERY_UUID].ok /\ ReadFailed(tk)

\* C3: a fetch_state whose reads were started on a connected device, one of
\* which (settings or states) raised BleakError, and which finds the device
\* disconnected when it ends, returns without raising.
C3_DisconnectSwallowed ==
    \A e \in Returns :
        ( /\ e.fn = "fetch_state"
          /\ e.tk.connected_at_issue
          /\ ValveReadFailed(e.tk)
          /\ ~device[e.tk.dev].is_connected ) => e.ret = "ok"

\* C4: a fetch_state one of whose reads (settings or states) raised
\* BleakError and which finds the device still connected when it ends raises
\* BleakError to its caller.
C4_FailurePropagates ==
    \A e \in Returns :
        ( /\ e.fn = "fetch_state"
          /\ ValveReadFailed(e.tk)
          /\ device[e.tk.dev].is_connected ) => e.ret = "BleakError"

\* C5: a connect() one of whose transport calls (establish_connection, the
\* manufacturer read) raised BleakError returns normally in the same step, and
\* the device is not connected when it returns.
C5_ConnectNeverRaises ==
    /\ \A t \in Tasks : ~ConnectFailed(task[t])
    /\ \A e \in Returns :
          (e.fn = "connect" /\ ConnectFailed(e.tk)) =>
              (e.ret = "ok" /\ ~device[e.tk.dev].is_connected)

C5_Witness ==
    \E e \in Returns :
        /\ e.fn = "connect"
        /\ e.ret = "ok"
        /\ Len(e.tk.trace) = 2
        /\ e.tk.trace[1].ok
        /\ e.tk.trace[2].exc = "BleakError"
        /\ ~device[e.tk.dev].is_connected

\* C6: a connect() that reaches its check (at its call, or when woken) while
\* the device is connected does not go on to establish_connection; it returns
\* normally having made no transport call and leaves every device and the
\* connection lock as they were.
C6_ConnectNoopWhenConnected ==
    [][ /\ \A t \in Tasks :
              (task[t].pc \in {"idle", "c_wait"} /\ task'[t].pc = "c_establish")
                  => ~device[task'[t].dev].is_connected
        /\ \A i \in DOMAIN returned' :
              LET e == returned'[i] IN
              ( /\ e.fn = "connect"
                /\ task[e.t].pc \in {"idle", "c_wait"}
                /\ device[e.tk.dev].is_connected )
                  => ( /\ e.ret = "ok"
                       /\ e.tk.trace = <<>>
                       /\ device' = device
                       /\ connection_lock' = connection_lock )
      ]_vars

C6_Witness ==
    \E e \in Returns :
        /\ e.fn = "connect"
        /\ e.tk.op = "connect"
        /\ e.ret = "ok"
        /\ e.tk.trace = <<>>
        /\ device[e.tk.dev].is_connected

\* C7: a connect() called while a connection attempt for the same device is in
\* flight is never suspended (it returns within its first step) and returns
\* normally.
C7_ReturnsImmediately ==
    /\ \A t \in Tasks : task[t].joined => task[t].pc = "idle"
    /\ \A e \in Returns : e.tk.joined => e.ret = "ok"

\* C8: reads and writes are handed to the transport only while the device is
\* marked connected.
C8_NoIoWhileDisconnected ==
    \A t \in Tasks : Issued(t) => task[t].connected_at_issue

\* the manufacturer reads a connect() awaited
ManufacturerReads(tk) ==
    {i \in DOMAIN tk.trace : /\ tk.trace[i].call = "read_gatt_char"
                             /\ tk.trace[i].arg = MANUFACTURER_UUID}

\* C9: a connect() whose establish_connection returned a client and which
\* returns normally with the device connected has awaited exactly one
\* manufacturer read, which returned a payload, and the device's model is
\* bytes 0-4 of that payload and its valve_count the decimal digit at byte 6.
C9_ModelFromOneRead ==
    \A e \in Returns :
        ( /\ e.fn = "connect"
          /\ e.ret = "ok"
          /\ device[e.tk.dev].is_connected
          /\ \E c \in Entries(e.tk) : c.call = "establish_connection" /\ c.ok )
        => /\ Cardinality(ManufacturerReads(e.tk)) = 1
           /\ \A i \in ManufacturerReads(e.tk) :
                 LET c == e.tk.trace[i] IN
                 /\ c.ok
                 /\ Len(c.val) >= 7
                 /\ device[e.tk.dev].model = SubSeq(c.val, 1, 5)
                 /\ c.val[7] \in 48..57
                 /\ device[e.tk.dev].valve_count = c.val[7] - 48

C9_Witness ==
    \E e \in Returns :
        /\ e.fn = "connect"
        /\ e.ret = "ok"
        /\ device[e.tk.dev].is_connected
        /\ Len(e.tk.trace) = 2
        /\ e.tk.trace[2].val = Ascii(<<2, 2, 2, 2, 2, 0, 3, 0, 0>>)
        /\ device[e.tk.dev].model = Ascii(<<2, 2, 2, 2, 2>>)
        /\ device[e.tk.dev].valve_count = 3

\* zone n is exposed by a device of valve_count vc
Exposed(n, vc) ==
    \/ n = 1
    \/ n = 2 /\ vc > 1
    \/ n = 3 /\ vc > 2
    \/ n = 4 /\ vc > 2

\* C10: on a device whose valve_count is in 1..4, reading zone<n> and
\* evaluating device["zone<n>"] both return without raising, return the same
\* result, and that result is the valve of index n - 1 when zone n is exposed
\* (zone1 always, zone2 iff valve_count > 1, zone3 and zone4 iff
\* valve_count > 2) and None otherwise.
C10_ZoneAccessors ==
    \A e \in Returns :
        ( /\ e.fn \in {"property", "getitem"}
          /\ device[e.tk.dev].valve_count \in 1..4 )
        => /\ e.ret = "ok"
           /\ e.val = IF Exposed(e.key, device[e.tk.dev].valve_count)
                      THEN {e.key - 1} ELSE {}
           /\ zone(device[e.tk.dev], e.key)
                 = getitem(device[e.tk.dev], ZoneKeys[e.key])

C10_Witness ==
    \E e \in Returns :
        /\ e.fn = "getitem"
        /\ e.key = 4
        /\ device[e.tk.dev].valve_count = 3
        /\ e.val = {3}

\* block i (0-based) of a settings payload
BlockOf(payload, i) == SubSeq(payload, 5 * i + 1, 5 * i + 5)
\* the 5 bytes are [isWatering][manualMinutes, big-endian][manualMinutes again]
\* for the valve
IsBlockOf(block, valve) ==
    /\ Len(block) = 5
    /\ \A j \in 1..5 : block[j] \in 0..255
    /\ block[1] = (IF valve.is_watering THEN 1 ELSE 0)
    /\ block[2] * 256 + block[3] = valve.manual_minutes
    /\ block[4] = block[2]
    /\ block[5] = block[3]

\* C11: whenever push_state hands the settings write to the transport, the
\* payload is 20 bytes, and its block i is the 5-byte block of _valves[i] as
\* the valve is at that moment, for all four valves whatever valve_count is.
C11_SettingsPayload ==
    [][ \A t \in Tasks :
          (task[t].pc # "p_write_settings" /\ task'[t].pc = "p_write_settings")
          => /\ Len(task'[t].payload) = 20
             /\ \A i \in 0..3 :
                   IsBlockOf(BlockOf(task'[t].payload, i),
                             device'[task'[t].dev].valves[i + 1])
      ]_vars

C11_Witness ==
    \E t \in Tasks :
        /\ task[t].pc = "p_write_settings"
        /\ device[task[t].dev].valve_count = 1
        /\ BlockOf(task[t].payload, 0) = <<1, 1, 44, 1, 44>>
        /\ BlockOf(task[t].payload, 3) = <<0, 0, 20, 0, 20>>

\* the write of characteristic uuid a call awaited, if any
Writes(tk, uuid) ==
    {c \in Entries(tk) : c.call = "write_gatt_char" /\ c.arg = uuid}
WriteFailed(tk) == \E c \in Entries(tk) : c.call = "write_gatt_char" /\ ~c.ok
\* a push_state that found a client in self._connection has ended
Pushed(e) == e.fn = "push_state" /\ device[e.tk.dev].link # "unset"

\* C12 as stated: each write is performed if and only if its characteristic
\* exists, and the push_state ends without error unless a write raised.
C12_WriteIffCharacteristic ==
    \A e \in Returns :
        Pushed(e) =>
            /\ Writes(e.tk, VALVE_MANUAL_SETTINGS_UUID) # {}
                  <=> VALVE_MANUAL_SETTINGS_UUID \in device[e.tk.dev].services
            /\ Writes(e.tk, UPDATED_AT_UUID) # {}
                  <=> UPDATED_AT_UUID \in device[e.tk.dev].services
            /\ e.ret = "ok" <=> ~WriteFailed(e.tk)

\* C12 amended: the settings write is performed if and only if the settings
\* characteristic exists; the updated-at write is performed if and only if
\* the updated-at characteristic exists and the settings write did not raise;
\* the push_state ends without error unless a write raised, so an absent
\* characteristic causes no error.
C12_WriteIffCharacteristicUnlessFailed ==
    \A e \in Returns :
        Pushed(e) =>
            /\ Writes(e.tk, VALVE_MANUAL_SETTINGS_UUID) # {}
                  <=> VALVE_MANUAL_SETTINGS_UUID \in device[e.tk.dev].services
            /\ Writes(e.tk, UPDATED_AT_UUID) # {}
                  <=> ( /\ UPDATED_AT_UUID \in device[e.tk.dev].services
                        /\ \A c \in Writes(e.tk, VALVE_MANUAL_SETTINGS_UUID) : c.ok )
            /\ e.ret = "ok" <=> ~WriteFailed(e.tk)

C12_Witness ==
    \E e \in Returns :
        /\ Pushed(e)
        /\ device[e.tk.dev].services = {UPDATED_AT_UUID}
        /\ e.ret = "ok"
        /\ Writes(e.tk, VALVE_MANUAL_SETTINGS_UUID) = {}
        /\ Writes(e.tk, UPDATED_AT_UUID) # {}

\* the reads of the gather() all returned bytes
AllRead(tk) == \A u \in DOMAIN tk.bytes_array : tk.bytes_array[u].ok
\* the big-endian unsigned value of bytes from+1 .. from+n of buf
BigEndian(buf, from, n) ==
    IF n = 2 THEN buf[from + 1] * 256 + buf[from + 2]
    ELSE ((buf[from + 1] * 256 + buf[from + 2]) * 256 + buf[from + 3]) * 256 + buf[from + 4]
correctEndTime(rawCounter) == IF rawCounter = 0 THEN 0 ELSE rawCounter - time_shift

\* C13: a fetch_state whose three reads all returned bytes returns normally,
\* having set the battery from the battery payload and, for each of the four
\* valves i = 0..3 whatever valve_count is, is_watering and manual_minutes
\* from bytes i*5 .. i*5+2 of the settings payload and the end time from the
\* counter at bytes i*5+1 .. i*5+4 of the states payload.
C13_FetchDecodesAllZones ==
    \A e \in Returns :
        (e.fn = "fetch_state" /\ AllRead(e.tk)) =>
            LET dv == device[e.tk.dev]
                settings == e.tk.bytes_array[VALVE_MANUAL_SETTINGS_UUID].val
                states == e.tk.bytes_array[VALVE_MANUAL_STATES_UUID].val
            IN  /\ e.ret = "ok"
                /\ dv.battery = parse_battery_value(e.tk.bytes_array[BATTERY_UUID].val)
                /\ \A i \in 0..3 :
                      /\ dv.valves[i + 1].is_watering = (settings[i * 5 + 1] # 0)
                      /\ dv.valves[i + 1].manual_minutes = BigEndian(settings, i * 5 + 1, 2)
                      /\ dv.valves[i + 1].end_time
                            = correctEndTime(BigEndian(states, i * 5 + 1, 4))

C13_Witness ==
    \E e \in Returns :
        /\ e.fn = "fetch_state"
        /\ AllRead(e.tk)
        /\ device[e.tk.dev].valve_count = 1
        /\ device[e.tk.dev].valves[3].is_watering
        /\ device[e.tk.dev].valves[3].manual_minutes = 15
        /\ device[e.tk.dev].valves[1].end_time = 300 - time_shift
        /\ device[e.tk.dev].valves[4].end_time = 0

\* update_state(raw, uuid) was called on a valve: the event, its buffer, the
\* offset of the valve's block
Decoded(e, uuid) == e.fn = "update_state" /\ e.tk.trace[1].arg = uuid
RawOf(e) == e.tk.trace[1].val
OffsetOf(e) == (e.key - 1) * 5
ValveOf(e) == device[e.tk.dev].valves[e.key]
\* the valve's 5-byte slice of a buffer that holds it whole, with its
\* duplicate field equal to the minutes field
CanonicalSlice(e) ==
    /\ Len(RawOf(e)) >= OffsetOf(e) + 5
    /\ RawOf(e)[OffsetOf(e) + 4] = RawOf(e)[OffsetOf(e) + 2]
    /\ RawOf(e)[OffsetOf(e) + 5] = RawOf(e)[OffsetOf(e) + 3]

C15_ShortBufferFails ==
    \A e \in Returns :
        ( /\ Decoded(e, VALVE_MANUAL_SETTINGS_UUID)
          /\ Len(RawOf(e)) < OffsetOf(e) + 5 ) =>
            /\ e.ret # "ok"
            /\ ValveOf(e) \in e.val

\* C16: update_state on a states buffer that holds the valve's block sets the
\* end time to correctEndTime of the big-endian unsigned 32-bit counter at
\* bytes offset+1 .. offset+4: 0 for the counter 0, the counter minus
\* time_shift() otherwise.
C16_EndTimeCorrected ==
    \A e \in Returns :
        ( /\ Decoded(e, VALVE_MANUAL_STATES_UUID)
          /\ Len(RawOf(e)) >= OffsetOf(e) + 5 ) =>
            LET rawCounter == BigEndian(RawOf(e), OffsetOf(e) + 1, 4) IN
            /\ e.ret = "ok"
            /\ rawCounter = 0 => ValveOf(e).end_time = 0
            /\ rawCounter # 0 => ValveOf(e).end_time = rawCounter - time_shift
            /\ ValveOf(e).end_time = correctEndTime(rawCounter)

C16_Witness ==
    \E e \in Returns :
        /\ Decoded(e, VALVE_MANUAL_STATES_UUID)
        /\ e.key = 4
        /\ Len(RawOf(e)) >= OffsetOf(e) + 5
        /\ BigEndian(RawOf(e), OffsetOf(e) + 1, 4) = 2147483647
        /\ ValveOf(e).end_time = 2147483647 - time_shift
        /\ \E before \in e.val : before.end_time = 0 - time_shift \div 2

\* C17: after update_state decoded a states buffer, the valve's end time is 0
\* if and only if the counter it decoded was 0.
C17_ZeroMeansNotWatering ==
    \A e \in Returns :
        ( /\ Decoded(e, VALVE_MANUAL_STATES_UUID)
          /\ e.ret = "ok" ) =>
            ( ValveOf(e).end_time = 0
                <=> BigEndian(RawOf(e), OffsetOf(e) + 1, 4) = 0 )

\* coroutine t has a place in the global lock: it owns it or waits for it
InGate(t) ==
    \/ GLOBAL_BLUETOOTH_LOCK.locked_by = {t}
    \/ \E i \in DOMAIN GLOBAL_BLUETOOTH_LOCK.waiters : GLOBAL_BLUETOOTH_LOCK.waiters[i] = t

\* C18: a coroutine whose call has finished, normally or with an exception,
\* neither owns GLOBAL_BLUETOOTH_LOCK nor waits for it, nor owns the
\* connection lock; when no call is in progress both locks are free.
C18_GateReleased ==
    /\ \A t \in Tasks :
          task[t].pc = "idle" => (~InGate(t) /\ connection_lock # {t})
    /\ (\A t \in Tasks : task[t].pc = "idle") =>
          (Free(GLOBAL_BLUETOOTH_LOCK) /\ connection_lock = {})

C18_Witness ==
    /\ \A t \in Tasks : task[t].pc = "idle"
    /\ \E e \in Returns : e.fn = "push_state" /\ e.ret = "BleakError"
    /\ Free(GLOBAL_BLUETOOTH_LOCK)

\* C19: a connect() returns without a transport connect attempt only when it
\* finds its own device connected; one that finds its device not connected
\* goes on to establish_connection, whatever attempt for another device was
\* in flight when it was called.
C19_OtherDeviceNotSuppressed ==
    [][ \A t \in Tasks :
          /\ \A i \in DOMAIN returned' :
                ( /\ returned'[i].t = t
                  /\ returned'[i].fn = "connect"
                  /\ task[t].pc \in {"idle", "c_wait"} )
                => device[returned'[i].tk.dev].is_connected
          /\ ( /\ task[t].pc = "c_wait"
               /\ task'[t].pc # "c_wait"
               /\ ~device[task[t].dev].is_connected )
             => task'[t].pc = "c_establish"
      ]_vars

C19_Witness ==
    \E t \in Tasks :
        /\ task[t].pc = "c_establish"
        /\ task[t].op = "connect"
        /\ task[t].raced
        /\ ~task[t].joined

\* C20: no coroutine waits for GLOBAL_BLUETOOTH_LOCK while it holds it, and,
\* when every awaited transport call eventually returns or raises, every
\* operation that was started eventually finishes.
C20_NoDeadlock ==
    /\ [](\A t \in Tasks : GLOBAL_BLUETOOTH_LOCK.locked_by = {t} =>
              \A i \in DOMAIN GLOBAL_BLUETOOTH_LOCK.waiters :
                  GLOBAL_BLUETOOTH_LOCK.waiters[i] # t)
    /\ \A t \in Tasks : (task[t].pc # "idle") ~> (task[t].pc = "idle")

\* the connect() inside a fetch_state or push_state has returned and the
\* coroutine now waits for the lock it no longer holds
C20_Witness ==
    \E e \in Returns :
        /\ e.fn = "connect"
        /\ e.tk.op \in {"fetch_state", "push_state"}
        /\ task[e.t].pc \in {"f_wait", "p_wait"}
        /\ GLOBAL_BLUETOOTH_LOCK.locked_by # {e.t}

\* C21: when a connect() has returned and left _is_connected False, the
\* device's transport link is not open.
C21_NoLinkLeftBehind ==
    \A e \in Returns :
        (e.fn = "connect" /\ ~device[e.tk.dev].is_connected)
        => device[e.tk.dev].link # "open"

\* C22: a fetch_state that raises, or one of whose reads raised BleakError,
\* leaves the is_watering, manual_minutes and end_time of every valve as they
\* were.
C22_NoPartialUpdate ==
    [][ \A i \in DOMAIN returned' :
          ( /\ returned'[i].fn = "fetch_state"
            /\ (returned'[i].ret # "ok" \/ ReadFailed(returned'[i].tk)) )
          => device'[returned'[i].tk.dev].valves = device[returned'[i].tk.dev].valves
      ]_vars

====
